---- MODULE Spec2Model ----
(***************************************************************************)
(* A model of package xopen (src/xopen.go): Ropen / XReader / Buf and the  *)
(* composite Reader, WopenFile / Wopen and the composite Writer.           *)
(*                                                                         *)
(* Strings are sequences of one-character strings, byte streams are        *)
(* sequences of integers 0..255.  The codecs, bufio, the file system, the  *)
(* HTTP client and os/exec are collaborators of the package; they are      *)
(* modelled by the part of their contract the package relies on.           *)
(***************************************************************************)
EXTENDS Integers, Sequences, FiniteSets, TLC

\* ------------------------------------------------------------------ bounds
MaxTail   == 3   \* longest run of filler bytes appended to a stream prefix
MaxWrites == 2   \* Write calls on one Writer
MaxFlush  == 1   \* explicit Flush calls on one Writer
MaxClose  == 2   \* Close calls on one handle
MaxSniff  == 1   \* CheckBytes calls on one Reader

\* --------------------------------------------------------- sequence helpers
Min(a, b) == IF a < b THEN a ELSE b

Drop(s, n) == SubSeq(s, n + 1, Len(s))

Take(s, n) == SubSeq(s, 1, Min(n, Len(s)))

\* strings.HasPrefix
HasPrefix(s, p) == Len(s) >= Len(p) /\ SubSeq(s, 1, Len(p)) = p

\* strings.HasSuffix
HasSuffix(s, p) == Len(s) >= Len(p) /\ SubSeq(s, Len(s) - Len(p) + 1, Len(s)) = p

LowerChar(c) ==
    CASE c = "G" -> "g"
      [] c = "Z" -> "z"
      [] c = "X" -> "x"
      [] c = "S" -> "s"
      [] c = "T" -> "t"
      [] c = "F" -> "f"
      [] OTHER -> c

\* strings.ToLower
ToLower(s) == [i \in 1..Len(s) |-> LowerChar(s[i])]

\* index of the first sep in s, 0 when there is none
RECURSIVE IndexFrom(_, _, _)
IndexFrom(s, sep, i) ==
    IF i > Len(s) THEN 0
    ELSE IF s[i] = sep THEN i
    ELSE IndexFrom(s, sep, i + 1)

\* index of the last sep in s, 0 when there is none
RECURSIVE LastIndexFrom(_, _, _)
LastIndexFrom(s, sep, i) ==
    IF i < 1 THEN 0
    ELSE IF s[i] = sep THEN i
    ELSE LastIndexFrom(s, sep, i - 1)

\* strings.Split(s, sep) for a one-character separator: every separator
\* cuts, so leading, trailing and doubled separators give empty fields
RECURSIVE Split(_, _)
Split(s, sep) ==
    LET i == IndexFrom(s, sep, 1)
    IN  IF i = 0 THEN <<s>>
        ELSE <<SubSeq(s, 1, i - 1)>> \o Split(Drop(s, i), sep)

\* ------------------------------------------------------------------- bytes
GzMagic  == <<31, 139>>                    \* 1F 8B
XzMagic  == <<253, 55, 122, 88, 90, 0>>    \* FD 37 7A 58 5A 00
ZstMagic == <<40, 181, 47, 253>>           \* 28 B5 2F FD
BOMBytes == <<239, 187, 191>>              \* EF BB BF, U+FEFF in UTF-8
BOMRune  == 65279                          \* the rune U+FEFF

Magic(fmt) ==
    CASE fmt = "gzip" -> GzMagic
      [] fmt = "xz"   -> XzMagic
      [] fmt = "zstd" -> ZstMagic
      [] OTHER        -> <<>>

Formats == {"gzip", "xz", "zstd"}

IsCont(b) == b >= 128 /\ b <= 191

\* utf8.DecodeRune as used by bufio.Reader.ReadRune on a non-empty s:
\* the first rune and the number of bytes it occupies; an invalid or
\* incomplete encoding is utf8.RuneError of width 1
DecodeRune(s) ==
    LET b0 == s[1]
        lo == IF b0 = 224 THEN 160 ELSE IF b0 = 240 THEN 144 ELSE 128
        hi == IF b0 = 237 THEN 159 ELSE IF b0 = 244 THEN 143 ELSE 191
    IN  IF b0 < 128 THEN [r |-> b0, size |-> 1]
        ELSE IF b0 >= 194 /\ b0 <= 223 /\ Len(s) >= 2 /\ IsCont(s[2])
            THEN [r |-> (b0 - 192) * 64 + (s[2] - 128), size |-> 2]
        ELSE IF b0 >= 224 /\ b0 <= 239 /\ Len(s) >= 3
                /\ s[2] >= lo /\ s[2] <= hi /\ IsCont(s[3])
            THEN [r |-> (b0 - 224) * 4096 + (s[2] - 128) * 64 + (s[3] - 128),
                  size |-> 3]
        ELSE IF b0 >= 240 /\ b0 <= 244 /\ Len(s) >= 4
                /\ s[2] >= lo /\ s[2] <= hi /\ IsCont(s[3]) /\ IsCont(s[4])
            THEN [r |-> (b0 - 240) * 262144 + (s[2] - 128) * 4096
                        + (s[3] - 128) * 64 + (s[4] - 128),
                  size |-> 4]
        ELSE [r |-> 65533, size |-> 1]   \* utf8.RuneError

\* ------------------------------------------------------------------ codecs
\* A compressed stream is a header (the format's magic and one method
\* byte), then blocks, then an end marker.  A block is its length n >= 1
\* followed by n bytes; the end marker is a single 0.
Header(fmt) == Magic(fmt) \o <<8>>

Block(p) == IF p = <<>> THEN <<>> ELSE <<Len(p)>> \o p

EndMark == <<0>>

\* the stream a compressor produces for payload p written as one block
Encode(fmt, p) == Header(fmt) \o Block(p) \o EndMark

\* decode the blocks of a stream body (the bytes after the magic)
RECURSIVE DecodeBlocks(_)
DecodeBlocks(s) ==
    IF s = <<>> THEN [data |-> <<>>, err |-> "unexpected EOF"]
    ELSE IF s[1] = 0 THEN [data |-> <<>>, err |-> "nil"]
    ELSE IF Len(s) - 1 < s[1]
        THEN [data |-> Drop(s, 1), err |-> "unexpected EOF"]
    ELSE LET rest == DecodeBlocks(Drop(s, 1 + s[1]))
         IN  [data |-> SubSeq(s, 2, 1 + s[1]) \o rest.data, err |-> rest.err]

\* ------------------------------------------------------------ bufio.Reader
\* data: what the underlying reader yields; pos: bytes consumed so far;
\* last: width of the rune the last ReadRune returned, -1 when the last
\* operation was not a ReadRune
NewReaderSize(data) == [data |-> data, pos |-> 0, last |-> -1]

Avail(b) == Drop(b.data, b.pos)

\* bufio.Reader.Peek: the next n bytes without advancing; fewer than n
\* bytes before the end of the stream is io.EOF
Peek(b, n) ==
    IF Len(b.data) - b.pos >= n
    THEN [m |-> SubSeq(b.data, b.pos + 1, b.pos + n), err |-> "nil"]
    ELSE [m |-> Avail(b), err |-> "EOF"]

\* bufio.Reader.ReadRune
Decoded(d, b) ==
    [r |-> d.r, size |-> d.size, err |-> "nil",
     b |-> [b EXCEPT !.pos = b.pos + d.size, !.last = d.size]]

ReadRune(b) ==
    IF b.pos >= Len(b.data)
    THEN [r |-> 0, size |-> 0, err |-> "EOF", b |-> [b EXCEPT !.last = -1]]
    ELSE Decoded(DecodeRune(Avail(b)), b)

\* bufio.Reader.UnreadRune
UnreadRune(b) ==
    IF b.last < 0 \/ b.pos < b.last THEN b
    ELSE [b EXCEPT !.pos = b.pos - b.last, !.last = -1]

\* bufio.Reader.Read of up to n bytes
ReadN(b, n) ==
    LET k == Min(n, Len(b.data) - b.pos)
    IN  [p |-> SubSeq(b.data, b.pos + 1, b.pos + k),
         b |-> [b EXCEPT !.pos = b.pos + k, !.last = -1]]

\* ------------------------------------------------------------- the sniffer
\* what CheckBytes makes of the peeked bytes p: a short peek is
\* ErrNoContent, whatever the error Peek gave; b is the reader afterwards
Compare(p, buf, b) ==
    IF p.err # "nil"
    THEN [is |-> FALSE, err |-> "ErrNoContent", b |-> b]
    ELSE [is |-> \A i \in 1..Len(buf) : p.m[i] = buf[i],
          err |-> "nil", b |-> b]

\* variant of CheckBytes that consumes the bytes it compares
CheckBytesConsuming(b, buf) ==
    Compare(Peek(b, Len(buf)), buf, ReadN(b, Len(buf)).b)

\* CheckBytes: peek len(buf) bytes and compare
CheckBytes(b, buf) == Compare(Peek(b, Len(buf)), buf, b)

IsGzip(b) == CheckBytes(b, GzMagic)

IsXz(b) == CheckBytes(b, XzMagic)

IsZst(b) == CheckBytes(b, ZstMagic)

\* ---------------------------------------------------------------- decoders
\* gzip.NewReader / xz.NewReader read the header from b's read position
\* and fail on a truncated or malformed one; the decoded stream is what
\* the blocks after it hold.  zstd.NewReader reads nothing until the
\* first Read, so a bad header shows as a read error on an empty stream.
NewDecoder(fmt, b) ==
    IF HasPrefix(Avail(b), Header(fmt))
    THEN [err |-> "nil",
          data |-> DecodeBlocks(Drop(Avail(b), Len(Header(fmt)))).data]
    ELSE [err |-> IF fmt = "zstd" THEN "nil" ELSE "codec", data |-> <<>>]

\* --------------------------------------------------------------------- Buf
\* what the BOM check does with the outcome rr of ReadRune: any error
\* is ErrNoContent; the rune is put back unless it is U+FEFF
AfterReadRune(rr) ==
    IF rr.err # "nil" THEN [err |-> "ErrNoContent", b |-> rr.b]
    ELSE [err |-> "nil",
          b |-> IF rr.r # BOMRune THEN UnreadRune(rr.b) ELSE rr.b]

\* variant of StripBOM that drops the first rune whatever it is
StripBOMAlways(b) ==
    AfterReadRune([ReadRune(b) EXCEPT !.r = BOMRune])

\* the BOM check of Buf on the (decoded) buffer b
StripBOM(b) == AfterReadRune(ReadRune(b))

NoReader == [b |-> NewReaderSize(<<>>), gz |-> FALSE, fmt |-> "none"]

BufFail(err) == [err |-> err, rd |-> NoReader]

\* return &Reader{b, r, rdr}, or ErrNoContent from the BOM check s; gz
\* says whether the Reader's gz field is non-nil
BufReturn(s, gz, fmt) ==
    IF s.err # "nil" THEN BufFail(s.err)
    ELSE [err |-> "nil", rd |-> [b |-> s.b, gz |-> gz, fmt |-> fmt]]

\* the tail of Buf: BOM check, then build the Reader
BufFinish(b, gz, fmt) == BufReturn(StripBOM(b), gz, fmt)

\* what Buf does with the outcome d of a decoder's NewReader: return its
\* error, or re-buffer its output
BufDecoded(d, gz, fmt) ==
    IF d.err # "nil" THEN BufFail(d.err)
    ELSE BufFinish(NewReaderSize(d.data), gz, fmt)

\* one decoder branch of Buf
BufDecode(fmt, b, gz) == BufDecoded(NewDecoder(fmt, b), gz, fmt)

\* the zstd test of Buf, z being the outcome of IsZst; rd is not stored
BufZst(z) ==
    IF z.err # "nil" /\ z.err # "EOF" THEN BufFail(z.err)
    ELSE IF z.is THEN BufDecode("zstd", z.b, FALSE)
    ELSE BufFinish(z.b, FALSE, "none")

\* the xz test of Buf, x being the outcome of IsXz; rd is not stored
BufXz(x) ==
    IF x.err # "nil" /\ x.err # "EOF" THEN BufFail(x.err)
    ELSE IF x.is THEN BufDecode("xz", x.b, FALSE)
    ELSE BufZst(IsZst(x.b))

\* the gzip test of Buf, g being the outcome of IsGzip; only this branch
\* assigns the io.ReadCloser rdr that becomes Reader.gz
BufGz(g) ==
    IF g.err # "nil" /\ g.err # "EOF" THEN BufFail(g.err)
    ELSE IF g.is THEN BufDecode("gzip", g.b, TRUE)
    ELSE BufXz(IsXz(g.b))

\* Buf(r) for a source r that yields the bytes raw
Buf(raw) == BufGz(IsGzip(NewReaderSize(raw)))

\* ------------------------------------------------------------ Reader.Close
\* lay counts the close operations each layer has received:
\*   tr   the decompressing transform      raw  the raw source
\*   comp the compressing transform       sink the raw sink
NoLayers == [tr |-> 0, raw |-> 0, comp |-> 0, sink |-> 0]

\* variant of Reader.Close that gives up when the transform's Close fails
ReaderCloseStrict(rd, lay, log, gzerr) ==
    LET l1 == IF rd.gz THEN [lay EXCEPT !.tr = lay.tr + 1] ELSE lay
        g1 == IF rd.gz THEN Append(log, "gz.Close") ELSE log
    IN  IF rd.gz /\ gzerr THEN [lay |-> l1, log |-> g1]
        ELSE IF rd.closable
            THEN [lay |-> [l1 EXCEPT !.raw = l1.raw + 1],
                  log |-> Append(g1, "rdr.Close")]
        ELSE [lay |-> l1, log |-> g1]

\* Reader.Close: close gz when it is set, then the raw source when it is
\* an io.ReadCloser; both results are dropped (gzerr: gz.Close failed)
ReaderClose(rd, lay, log, gzerr) ==
    LET l1 == IF rd.gz THEN [lay EXCEPT !.tr = lay.tr + 1] ELSE lay
        g1 == IF rd.gz THEN Append(log, "gz.Close") ELSE log
    IN  IF rd.closable
        THEN [lay |-> [l1 EXCEPT !.raw = l1.raw + 1],
              log |-> Append(g1, "rdr.Close")]
        ELSE [lay |-> l1, log |-> g1]

\* ------------------------------------------------------------- environment
\* path names
P_gz   == <<"f", ".", "g", "z">>
P_GZ   == <<"f", ".", "G", "Z">>
P_xz   == <<"f", ".", "x", "z">>
P_zst  == <<"f", ".", "z", "s", "t">>
P_txt  == <<"f", ".", "t">>
P_dir  == <<"d">>
P_home == <<"h">>
P_hgz  == <<"h", "/", "f", ".", "g", "z">>
P_new  == <<"x">>
P_ngz  == <<"x", "/", "f", ".", "g", "z">>
P_tgz  == <<"f", ".", "t", "/", "f", ".", "g", "z">>
P_none == <<"n">>

\* the paths the file system can hold
Paths == {P_gz, P_GZ, P_xz, P_zst, P_txt, P_dir, P_home, P_hgz, P_new, P_ngz}

Absent == [kind |-> "absent", data |-> <<>>]

Directory == [kind |-> "dir", data |-> <<>>]

File(data) == [kind |-> "file", data |-> data]

\* the kernel's view of a path: doubled separators collapse
RECURSIVE Clean(_)
Clean(p) ==
    IF Len(p) < 2 THEN p
    ELSE IF p[1] = "/" /\ p[2] = "/" THEN Clean(Tail(p))
    ELSE <<p[1]>> \o Clean(Tail(p))

\* os.Stat
Stat(fs, p) ==
    IF p = <<".">> THEN Directory
    ELSE IF Clean(p) \in DOMAIN fs THEN fs[Clean(p)]
    ELSE Absent

\* filepath.Dir
Dir(p) ==
    LET i == LastIndexFrom(p, "/", Len(p))
    IN  IF i = 0 THEN <<".">>
        ELSE IF i = 1 THEN <<"/">>
        ELSE SubSeq(p, 1, i - 1)

\* os/user: the current user and the users user.Lookup knows, all with
\* the home directory P_home
Users == {<<"u">>}

\* ExpandUser
ExpandUser(path) ==
    IF Len(path) = 0 \/ path[1] # "~" THEN [err |-> "nil", path |-> path]
    ELSE IF Len(path) = 1 \/ path[2] = "/"
        THEN [err |-> "nil", path |-> P_home \o <<"/">> \o Tail(path)]
    ELSE IF Split(Tail(path), "/")[1] \in Users
        THEN [err |-> "nil", path |-> P_home \o <<"/">> \o Tail(path)]
    ELSE [err |-> "user: unknown user", path |-> <<>>]

\* executables os/exec can start
Cmds == {<<"a">>}

HttpPrefix == <<"h", "t", "t", "p", ":", "/", "/">>

HttpsPrefix == <<"h", "t", "t", "p", "s", ":", "/", "/">>

\* a raw source: kind "none" when nothing was acquired
NoSrc == [kind |-> "none", open |-> FALSE]

\* ----------------------------------------------------------------- XReader
\* os.Stat, the directory test and os.Open on what os.Stat found
XOpenStat(fi) ==
    IF fi.kind = "absent"
    THEN [err |-> "os: no such file", src |-> NoSrc, data |-> <<>>]
    ELSE IF fi.kind = "dir"
    THEN [err |-> "ErrDirNotSupported", src |-> NoSrc, data |-> <<>>]
    ELSE [err |-> "nil", src |-> [kind |-> "file", open |-> TRUE],
          data |-> fi.data]

\* the file branch of XReader, e being the outcome of ExpandUser
XOpen(e, fs) ==
    IF e.err # "nil" THEN [err |-> e.err, src |-> NoSrc, data |-> <<>>]
    ELSE XOpenStat(Stat(fs, e.path))

\* XReader(f).  web is what http.Get gives: err, status, body.  A response
\* whose status is not 200 is dropped with its body still open.
XReader(f, fs, web) ==
    IF HasPrefix(f, HttpPrefix) \/ HasPrefix(f, HttpsPrefix)
    THEN IF web.err
         THEN [err |-> "http", src |-> NoSrc, data |-> <<>>]
         ELSE IF web.status # 200
         THEN [err |-> "http error downloading",
               src |-> [kind |-> "http", open |-> TRUE], data |-> <<>>]
         ELSE [err |-> "nil", src |-> [kind |-> "http", open |-> TRUE],
               data |-> web.body]
    ELSE XOpen(ExpandUser(f), fs)

\* ------------------------------------------------------------------- Ropen
NoProc == [started |-> FALSE, path |-> <<>>, args |-> <<>>, tokens |-> <<>>]

\* what Ropen hands back: res is "reader", "error" or "panic"; raw is the
\* stream given to Buf when buf is TRUE; log lists the process start and
\* the first read of the source in the order they happened
RopenResult(res, err, rd, src, proc, buf, raw, log) ==
    [res |-> res, err |-> err, rd |-> rd, src |-> src, proc |-> proc,
     buf |-> buf, raw |-> raw, log |-> log]

\* return b, err for the outcome r of Buf
RopenReturn(r, raw, src, proc, log) ==
    RopenResult(IF r.err = "nil" THEN "reader" ELSE "error", r.err, r.rd,
                src, proc, TRUE, raw, Append(log, "rdr.Read"))

\* b, err := Buf(rdr); return b, err
RopenBuf(raw, src, proc, log) == RopenReturn(Buf(raw), raw, src, proc, log)

\* the exec.Cmd Ropen builds from the text after '|'
Command(cmdStrs) ==
    [started |-> FALSE, path |-> cmdStrs[1],
     args |-> IF Len(cmdStrs) = 2 THEN Tail(cmdStrs) ELSE <<>>,
     tokens |-> cmdStrs]

\* a source Ropen got, or the reason it did not
Got(data, src, proc, log) ==
    [res |-> "ok", err |-> "nil", data |-> data, src |-> src, proc |-> proc,
     log |-> log]

NotGot(res, err, src, proc) ==
    [res |-> res, err |-> err, data |-> <<>>, src |-> src, proc |-> proc,
     log |-> <<>>]

\* the subprocess branch: StdoutPipe, then Start; a failed Start closes
\* the pipe itself
Spawn(cmd, procOut) ==
    IF cmd.path \notin Cmds
    THEN NotGot("error", "exec", [kind |-> "pipe", open |-> FALSE], cmd)
    ELSE Got(procOut, [kind |-> "pipe", open |-> TRUE],
             [cmd EXCEPT !.started = TRUE], <<"cmd.Start">>)

\* the outcome x of XReader as a source
FromXReader(x) ==
    IF x.err # "nil" THEN NotGot("error", x.err, x.src, NoProc)
    ELSE Got(x.data, x.src, NoProc, <<>>)

\* the branches of Ropen up to the source: standard input, a subprocess,
\* or XReader.  env: isStdin, stdin (bytes on standard input), web (the
\* http.Get outcome), procOut (bytes the subprocess prints).  f[0] on the
\* empty string is an index out of range.
Acquire(f, fs, env) ==
    IF f = <<"-">>
    THEN IF ~env.isStdin
         THEN NotGot("error", "stdin not detected", NoSrc, NoProc)
         ELSE Got(env.stdin, [kind |-> "stdin", open |-> TRUE], NoProc, <<>>)
    ELSE IF Len(f) = 0
    THEN NotGot("panic", "index out of range", NoSrc, NoProc)
    ELSE IF f[1] = "|"
    THEN Spawn(Command(Split(Tail(f), " ")), env.procOut)
    ELSE FromXReader(XReader(f, fs, env.web))

\* the returns of Ropen: the error met on the way, or Buf over the source
RopenFrom(a) ==
    IF a.res # "ok"
    THEN RopenResult(a.res, a.err, NoReader, a.src, a.proc, FALSE, <<>>,
                     <<>>)
    ELSE RopenBuf(a.data, a.src, a.proc, a.log)

\* Ropen(f)
Ropen(f, fs, env) == RopenFrom(Acquire(f, fs, env))

\* ------------------------------------------------------------------ Writer
bufSize == 65536

\* os.OpenFile flags
O_RDONLY == {}

O_CREATE_TRUNC == {"O_WRONLY", "O_CREATE", "O_TRUNC"}

\* The state a Writer works on:
\*   buf, berr  the bufio.Writer: buffered bytes and its sticky error
\*   comp       the compressor: fmt, hdr (header emitted), pend (bytes
\*              taken but not yet emitted), closed
\*   data, off  the sink's content and the file offset
\*   writable   the sink was opened for writing
\*   lay, log   close counts and the sequence of calls made on the layers
NewComp(fmt) == [fmt |-> fmt, hdr |-> FALSE, pend |-> <<>>, closed |-> FALSE]

\* wtr.Write(p): fails on a closed file and on one not opened for writing
SinkWrite(st, p) ==
    IF p = <<>> THEN st
    ELSE IF st.writable /\ st.lay.sink = 0
    THEN [st EXCEPT !.log = Append(st.log, "wtr.Write"),
                    !.data = Take(st.data, st.off) \o p
                             \o Drop(st.data, st.off + Len(p)),
                    !.off = st.off + Len(p)]
    ELSE [st EXCEPT !.log = Append(st.log, "wtr.Write")]

SinkOK(st) == st.writable /\ st.lay.sink = 0

\* the compressor's Write: bytes are taken into its internal buffer
CompWrite(st, p) ==
    IF p = <<>> THEN st
    ELSE IF ~st.comp.closed
    THEN [st EXCEPT !.log = Append(st.log, "comp.Write"),
                    !.comp.pend = st.comp.pend \o p]
    ELSE [st EXCEPT !.log = Append(st.log, "comp.Write")]

HeaderDue(c) == IF c.hdr THEN <<>> ELSE Header(c.fmt)

\* the compressor's Flush: header if still due, then the pending block
CompFlush(st, ev) ==
    LET s1 == [st EXCEPT !.log = Append(st.log, ev)]
    IN  IF st.comp.closed THEN s1
        ELSE [SinkWrite(s1, HeaderDue(st.comp) \o Block(st.comp.pend))
                EXCEPT !.comp.hdr = TRUE, !.comp.pend = <<>>]

\* the compressor's Close: header if still due, pending block, end marker
CompClose(st, ev) ==
    LET s1 == [st EXCEPT !.log = Append(st.log, ev),
                         !.lay.comp = st.lay.comp + 1]
    IN  IF st.comp.closed THEN s1
        ELSE [SinkWrite(s1, HeaderDue(st.comp) \o Block(st.comp.pend)
                            \o EndMark)
                EXCEPT !.comp.hdr = TRUE, !.comp.pend = <<>>,
                       !.comp.closed = TRUE]

\* what the bufio.Writer writes to: the compressor, or the sink itself
Under(st, p) ==
    IF st.comp.fmt = "none" THEN SinkWrite(st, p) ELSE CompWrite(st, p)

UnderOK(st) ==
    IF st.comp.fmt = "none" THEN SinkOK(st) ELSE ~st.comp.closed

\* bufio.Writer.Flush: nothing to do on a sticky error or an empty
\* buffer; a failed write keeps the bytes and sets the sticky error
BufFlush(st) ==
    LET s1 == [st EXCEPT !.log = Append(st.log, "buf.Flush")]
    IN  IF st.berr \/ st.buf = <<>> THEN s1
        ELSE IF UnderOK(s1) THEN [Under(s1, st.buf) EXCEPT !.buf = <<>>]
        ELSE [Under(s1, st.buf) EXCEPT !.berr = TRUE]

\* bufio.Writer.Write: refused on a sticky error; bytes that fit are
\* buffered, bytes that do not fit go to the underlying writer with the
\* buffer's content before them
BufWrite(st, p) ==
    IF st.berr THEN st
    ELSE IF Len(p) <= bufSize - Len(st.buf)
    THEN [st EXCEPT !.buf = st.buf \o p, !.B = st.B \o p]
    ELSE IF UnderOK(st)
    THEN [Under(st, st.buf \o p) EXCEPT !.buf = <<>>, !.B = st.B \o p]
    ELSE [Under(st, st.buf \o p) EXCEPT !.berr = TRUE]

\* Writer.Flush: the buffer, then gz.Flush or zw.Flush; xz has no Flush
WriterFlush(st) ==
    LET s1 == BufFlush(st)
    IN  IF st.comp.fmt = "gzip" THEN CompFlush(s1, "gz.Flush")
        ELSE IF st.comp.fmt = "zstd" THEN CompFlush(s1, "zw.Flush")
        ELSE s1

CloseSink(st) ==
    [st EXCEPT !.log = Append(st.log, "wtr.Close"),
               !.lay.sink = st.lay.sink + 1]

CloseComp(st) ==
    IF st.comp.fmt = "gzip" THEN CompClose(st, "gz.Close")
    ELSE IF st.comp.fmt = "xz" THEN CompClose(st, "xw.Close")
    ELSE IF st.comp.fmt = "zstd" THEN CompClose(st, "zw.Close")
    ELSE st

\* variant of Writer.Close that closes the file before the compressor
WriterCloseSinkFirst(st) ==
    CloseComp(CloseSink(WriterFlush(
        [st EXCEPT !.log = Append(st.log, "Writer.Close")])))

\* Writer.Close: Flush, close whichever compressor is set, close the file
WriterClose(st) ==
    CloseSink(CloseComp(WriterFlush(
        [st EXCEPT !.log = Append(st.log, "Writer.Close")])))

\* --------------------------------------------------------------- WopenFile
\* os.MkdirAll(dir)
MkdirAll(fs, dir) ==
    IF Clean(dir) \in DOMAIN fs /\ fs[Clean(dir)].kind = "absent"
    THEN [fs EXCEPT ![Clean(dir)] = Directory]
    ELSE fs

\* os.OpenFile(f, flag, perm): the file system afterwards and whether the
\* descriptor can be written
OpenFile(fs, f, flag) ==
    LET fi  == Stat(fs, f)
        par == Stat(fs, Dir(f))
        wr  == "O_WRONLY" \in flag
    IN  IF fi.kind = "absent"
        THEN IF "O_CREATE" \in flag /\ par.kind = "dir"
                /\ Clean(f) \in DOMAIN fs
             THEN [err |-> "nil", fs |-> [fs EXCEPT ![Clean(f)] = File(<<>>)],
                   writable |-> wr]
             ELSE [err |-> "os: no such file", fs |-> fs, writable |-> FALSE]
        ELSE IF fi.kind = "dir"
        THEN IF wr
             THEN [err |-> "os: is a directory", fs |-> fs, writable |-> FALSE]
             ELSE [err |-> "nil", fs |-> fs, writable |-> FALSE]
        ELSE [err |-> "nil",
              fs |-> IF wr /\ "O_TRUNC" \in flag
                     THEN [fs EXCEPT ![Clean(f)] = File(<<>>)] ELSE fs,
              writable |-> wr]

Suffix(f) ==
    LET f2 == ToLower(f)
    IN  IF HasSuffix(f2, <<".", "g", "z">>) THEN "gzip"
        ELSE IF HasSuffix(f2, <<".", "x", "z">>) THEN "xz"
        ELSE IF HasSuffix(f2, <<".", "z", "s", "t">>) THEN "zstd"
        ELSE "none"

\* the content of the sink f names: standard output or a file
SinkData(fs, stdout, f) ==
    IF f = <<"-">> THEN stdout ELSE Stat(fs, f).data

\* the Writer WopenFile builds over an opened sink.  xz.NewWriter writes
\* the stream header at once and its error is returned with the Writer;
\* gzip and zstd emit theirs with the first output.
MakeWriter(f, data, off, writable) ==
    LET st0 == [buf |-> <<>>, berr |-> FALSE, comp |-> NewComp(Suffix(f)),
                data |-> data, off |-> off, writable |-> writable,
                lay |-> NoLayers, log |-> <<>>, B |-> <<>>]
    IN  IF Suffix(f) = "xz"
        THEN [err |-> IF SinkOK(st0) THEN "nil" ELSE "xz: write",
              st |-> [SinkWrite(st0, Header("xz")) EXCEPT !.comp.hdr = TRUE]]
        ELSE [err |-> "nil", st |-> st0]

\* WopenFile(f, flag, perm)
WopenFile(f, flag, fs, stdout) ==
    IF f = <<"-">>
    THEN LET m == MakeWriter(f, stdout, Len(stdout), TRUE)
         IN  [err |-> m.err, opened |-> TRUE, fs |-> fs, st |-> m.st]
    ELSE LET dir == Dir(f)
             fi  == Stat(fs, dir)
             fs1 == IF fi.kind = "absent" THEN MkdirAll(fs, dir) ELSE fs
             o   == OpenFile(fs1, f, flag)
             m   == MakeWriter(f, Stat(o.fs, f).data, 0, o.writable)
         IN  IF fi.kind = "file"
             THEN [err |-> "can not write file into a non-directory path",
                   opened |-> FALSE, fs |-> fs, st |-> m.st]
             ELSE IF o.err # "nil"
             THEN [err |-> o.err, opened |-> FALSE, fs |-> fs1, st |-> m.st]
             ELSE [err |-> m.err, opened |-> TRUE, fs |-> o.fs, st |-> m.st]

\* Wopen(f) = WopenFile(f, os.O_RDONLY, 0)
Wopen(f, fs, stdout) == WopenFile(f, O_RDONLY, fs, stdout)

\* ------------------------------------------------------------------ inputs
Filler(n) == [i \in 1..n |-> 65]

\* stream heads: nothing, the BOM, a three-byte rune that is not the BOM,
\* a lone lead byte, three ASCII letters, the gzip magic
Heads == {<<>>, BOMBytes, <<239, 187, 190>>, <<239>>, <<66, 67, 68>>, GzMagic}

Payloads == {hd \o Filler(n) : hd \in Heads, n \in 0..MaxTail}

\* well-formed compressed streams, bare magics, streams cut short and
\* plain streams
InputStreams ==
    Payloads
    \cup {Encode(fmt, p) : fmt \in Formats, p \in Payloads}
    \cup {Magic(fmt) : fmt \in Formats}
    \cup {Header(fmt) \o <<2, 65>> : fmt \in Formats}

\* what standard input, an HTTP body, a subprocess or a file left by an
\* earlier run may carry
EnvStreams ==
    {<<>>, BOMBytes \o Filler(3), Encode("gzip", <<66>>),
     Encode("zstd", <<66, 66>>)}

WriteChunks == {<<65>>, BOMBytes}

D_stdio == <<"-">>
D_cmd1  == <<"|", "a">>
D_cmd2  == <<"|", "a", " ", "b">>
D_cmd3  == <<"|", "a", " ", "b", " ", "c">>
D_cmdsp == <<"|", " ", "a", " ", "b">>
D_nocmd == <<"|", "z">>
D_http  == HttpPrefix \o <<"w">>
D_https == HttpsPrefix \o <<"w">>
D_home  == <<"~", "/", "f", ".", "g", "z">>
D_user  == <<"~", "u", "/", "f", ".", "g", "z">>
D_nouser == <<"~", "v", "/", "f", ".", "g", "z">>

RDescriptors ==
    {<<>>, D_stdio, D_cmd1, D_cmd2, D_cmd3, D_cmdsp, D_nocmd, D_http,
     D_https, D_home, D_user, D_nouser,
     P_gz, P_GZ, P_xz, P_zst, P_txt, P_dir, P_ngz, P_none}

WDescriptors == {D_stdio, P_gz, P_GZ, P_xz, P_zst, P_txt, P_ngz, P_tgz}

OpenFlags == {O_RDONLY, O_CREATE_TRUNC}

\* files that may exist before the program runs
PreFiles == {P_gz, P_xz, P_zst, P_txt, P_hgz}

DefaultEnv ==
    [isStdin |-> FALSE, stdin |-> <<>>, procOut |-> <<>>,
     web |-> [err |-> TRUE, status |-> 0, body |-> <<>>]]

\* the surroundings a call Ropen(f) can meet
EnvFor(f) ==
    IF f = D_stdio
    THEN {DefaultEnv}
         \cup {[DefaultEnv EXCEPT !.isStdin = TRUE, !.stdin = s] :
                  s \in EnvStreams}
    ELSE IF Len(f) > 0 /\ f[1] = "|"
    THEN {[DefaultEnv EXCEPT !.procOut = s] : s \in EnvStreams}
    ELSE IF HasPrefix(f, HttpPrefix) \/ HasPrefix(f, HttpsPrefix)
    THEN {DefaultEnv,
          [DefaultEnv EXCEPT !.web = [err |-> FALSE, status |-> 404,
                                      body |-> <<>>]]}
         \cup {[DefaultEnv EXCEPT !.web = [err |-> FALSE, status |-> 200,
                                           body |-> s]] : s \in EnvStreams}
    ELSE {DefaultEnv}

\* ------------------------------------------------------------------- state
VARIABLES
    fs,      \* the file system: path -> [kind, data]
    stdout,  \* bytes written to standard output
    h,       \* the handle the caller holds: none, a Reader or a Writer
    src,     \* the raw source the last open acquired
    proc,    \* the subprocess the last Ropen built
    ret,     \* what the last open call returned
    lay,     \* close operations received by the layers of h
    log,     \* calls made on the layers of h, in order
    out,     \* bytes the caller has read from h
    wrote,   \* the write session that was closed
    phase    \* "fresh", then "write" and/or "read": the sessions so far

vars == <<fs, stdout, h, src, proc, ret, lay, log, out, wrote, phase>>

NoHandle == [kind |-> "none", closes |-> 0]

NoRet == [op |-> "none", f |-> <<>>, res |-> "none", err |-> "nil",
          buf |-> FALSE, raw |-> <<>>]

NoWrote == [done |-> FALSE, path |-> <<>>, B |-> <<>>, via |-> "none"]

InitWith(pre, s) ==
    /\ fs = [p \in Paths |->
               IF p = pre THEN File(s)
               ELSE IF p \in {P_dir, P_home} THEN Directory
               ELSE Absent]
    /\ stdout = <<>>
    /\ h = NoHandle
    /\ src = NoSrc
    /\ proc = NoProc
    /\ ret = NoRet
    /\ lay = NoLayers
    /\ log = <<>>
    /\ out = <<>>
    /\ wrote = NoWrote
    /\ phase = "fresh"

\* any one of the files may be there already, left by an earlier run
Init == \E pre \in PreFiles \cup {P_none}, s \in EnvStreams : InitWith(pre, s)

\* one file with any of the input streams in it
InitBuf == \E s \in InputStreams : InitWith(P_txt, s)

\* the caller holds no live handle
Idle == h.kind = "none" \/ h.closes >= 1

\* a read session comes first, or reads back what a closed write session
\* wrote
MayRead(f) ==
    \/ phase = "fresh"
    \/ phase = "write" /\ Idle /\ wrote.done /\ f = wrote.path

ReaderHandle(rd, closable, raw, f) ==
    [kind |-> "reader", b |-> rd.b, gz |-> rd.gz, fmt |-> rd.fmt,
     closable |-> closable, raw |-> raw, start |-> rd.b.pos,
     closes |-> 0, sniffs |-> 0,
     sniff |-> [is |-> FALSE, err |-> "nil"], path |-> f]

\* ----------------------------------------------------------------- actions
\* the caller has Ropen's result r for descriptor f
RopenDone(f, r) ==
    /\ h' = IF r.res = "reader"
            THEN ReaderHandle(r.rd, TRUE, r.raw, f) ELSE NoHandle
    /\ src' = r.src
    /\ proc' = r.proc
    /\ ret' = [op |-> "Ropen", f |-> f, res |-> r.res, err |-> r.err,
               buf |-> r.buf, raw |-> r.raw]
    /\ log' = r.log
    /\ lay' = NoLayers
    /\ out' = <<>>
    /\ phase' = "read"
    /\ UNCHANGED <<fs, stdout, wrote>>

\* the caller calls Ropen(f)
DoRopen(f) ==
    /\ MayRead(f)
    /\ \E env \in EnvFor(f) : RopenDone(f, Ropen(f, fs, env))

\* the caller has Buf's result r for the stream s
BufDone(s, r) ==
    /\ h' = IF r.err = "nil"
            THEN ReaderHandle(r.rd, FALSE, s, <<>>) ELSE NoHandle
    /\ ret' = [op |-> "Buf", f |-> <<>>,
               res |-> IF r.err = "nil" THEN "reader" ELSE "error",
               err |-> r.err, buf |-> TRUE, raw |-> s]
    /\ src' = [kind |-> "mem", open |-> FALSE]
    /\ proc' = NoProc
    /\ lay' = NoLayers
    /\ log' = <<"rdr.Read">>
    /\ out' = <<>>
    /\ phase' = "read"
    /\ UNCHANGED <<fs, stdout, wrote>>

\* the caller calls Buf on a reader of its own that has no Close
DoBuf(s) ==
    /\ phase = "fresh"
    /\ BufDone(s, Buf(s))

\* the caller has the sniff's answer c
SniffDone(c) ==
    /\ h' = [h EXCEPT !.b = c.b, !.sniffs = h.sniffs + 1,
                      !.sniff = [is |-> c.is, err |-> c.err]]
    /\ UNCHANGED <<fs, stdout, src, proc, ret, lay, log, out, wrote, phase>>

\* the caller sniffs the Reader's buffer with IsGzip, IsXz or IsZst
DoSniff(fmt) ==
    /\ h.kind = "reader" /\ h.closes = 0 /\ h.sniffs < MaxSniff
    /\ SniffDone(CheckBytes(h.b, Magic(fmt)))

\* the caller has the bytes r.p
ReadDone(r) ==
    /\ h' = [h EXCEPT !.b = r.b]
    /\ out' = out \o r.p
    /\ UNCHANGED <<fs, stdout, src, proc, ret, lay, log, wrote, phase>>

\* the caller reads up to n bytes
DoRead(n) ==
    /\ h.kind = "reader" /\ h.closes = 0
    /\ Avail(h.b) # <<>>
    /\ ReadDone(ReadN(h.b, n))

\* Reader.Close has returned, c being what it did to the layers
ReaderClosed(c) ==
    /\ lay' = c.lay
    /\ log' = c.log
    /\ src' = IF c.lay.raw > 0 THEN [src EXCEPT !.open = FALSE] ELSE src
    /\ h' = [h EXCEPT !.closes = h.closes + 1]
    /\ UNCHANGED <<fs, stdout, proc, ret, out, wrote, phase>>

\* the caller calls Reader.Close
DoReaderClose ==
    /\ h.kind = "reader" /\ h.closes < MaxClose
    /\ \E gzerr \in BOOLEAN : ReaderClosed(ReaderClose(h, lay, log, gzerr))

\* the Writer's working state, assembled from h and the sink it names
StateOf ==
    [buf |-> h.buf, berr |-> h.berr, comp |-> h.comp,
     data |-> SinkData(fs, stdout, h.path), off |-> h.off,
     writable |-> h.writable, lay |-> lay, log |-> log, B |-> h.B]

PutFile(fsys, f, data) ==
    IF f # D_stdio /\ Stat(fsys, f).kind = "file"
    THEN [fsys EXCEPT ![Clean(f)] = File(data)]
    ELSE fsys

\* put a Writer's working state back and count the call
Store(st, call) ==
    /\ fs' = PutFile(fs, h.path, st.data)
    /\ stdout' = IF h.path = D_stdio THEN st.data ELSE stdout
    /\ lay' = st.lay
    /\ log' = st.log
    /\ h' = [h EXCEPT !.buf = st.buf, !.berr = st.berr, !.comp = st.comp,
                      !.off = st.off, !.B = st.B, ![call] = h[call] + 1]

\* the caller has the result r of an open for writing
Opened(f, r, via) ==
    /\ h' = IF r.err = "nil"
            THEN [kind |-> "writer", buf |-> r.st.buf, berr |-> r.st.berr,
                  comp |-> r.st.comp, off |-> r.st.off,
                  writable |-> r.st.writable, B |-> <<>>, path |-> f,
                  via |-> via, closes |-> 0, writes |-> 0, flushes |-> 0]
            ELSE NoHandle
    /\ fs' = IF r.opened THEN PutFile(r.fs, f, r.st.data) ELSE r.fs
    /\ stdout' = IF r.opened /\ f = D_stdio THEN r.st.data ELSE stdout
    /\ ret' = [op |-> via, f |-> f,
               res |-> IF r.err = "nil" THEN "writer" ELSE "error",
               err |-> r.err, buf |-> FALSE, raw |-> <<>>]
    /\ lay' = NoLayers
    /\ log' = r.st.log
    /\ src' = NoSrc
    /\ proc' = NoProc
    /\ out' = <<>>
    /\ phase' = "write"
    /\ UNCHANGED wrote

\* the caller calls Wopen(f)
DoWopen(f) ==
    /\ phase = "fresh"
    /\ Opened(f, Wopen(f, fs, stdout), "Wopen")

\* the caller calls WopenFile(f, flag, perm)
DoWopenFile(f, flag) ==
    /\ phase = "fresh"
    /\ Opened(f, WopenFile(f, flag, fs, stdout), "WopenFile")

\* the caller writes p
DoWrite(p) ==
    /\ h.kind = "writer" /\ h.closes = 0 /\ h.writes < MaxWrites
    /\ Store(BufWrite(StateOf, p), "writes")
    /\ UNCHANGED <<src, proc, ret, out, wrote, phase>>

\* the caller calls Writer.Flush
DoFlush ==
    /\ h.kind = "writer" /\ h.flushes < MaxFlush
    /\ Store(WriterFlush(StateOf), "flushes")
    /\ UNCHANGED <<src, proc, ret, out, wrote, phase>>

\* the caller calls Writer.Close
DoWriterClose ==
    /\ h.kind = "writer" /\ h.closes < MaxClose
    /\ Store(WriterClose(StateOf), "closes")
    /\ wrote' = IF h.closes = 0
                THEN [done |-> TRUE, path |-> h.path, B |-> h.B,
                      via |-> h.via]
                ELSE wrote
    /\ UNCHANGED <<src, proc, ret, out, phase>>

Next ==
    \/ \E f \in RDescriptors : DoRopen(f)
    \/ \E s \in EnvStreams : DoBuf(s)
    \/ \E fmt \in Formats : DoSniff(fmt)
    \/ \E n \in {1, bufSize} : DoRead(n)
    \/ DoReaderClose
    \/ \E f \in WDescriptors : DoWopen(f)
    \/ \E f \in WDescriptors, flag \in OpenFlags : DoWopenFile(f, flag)
    \/ \E p \in WriteChunks : DoWrite(p)
    \/ DoFlush
    \/ DoWriterClose

\* the whole package, over files left by an earlier run
Spec == Init /\ [][Next]_vars

\* Ropen of the file, or Buf on a reader holding the same bytes
NextBuf ==
    \/ DoRopen(P_txt)
    \/ DoBuf(Stat(fs, P_txt).data)
    \/ \E fmt \in Formats : DoSniff(fmt)
    \/ \E n \in {1, bufSize} : DoRead(n)
    \/ DoReaderClose

\* the read side alone, over every input stream
SpecBuf == InitBuf /\ [][NextBuf]_vars

\* ------------------------------------------------------------------ claims
\* position of the first e in the log, 0 when there is none
FirstIdx(lg, e) == IndexFrom(lg, e, 1)

NoMagic(raw) == \A fmt \in Formats : ~HasPrefix(raw, Magic(fmt))

CompCloses == {"gz.Close", "xw.Close", "zw.Close"}

\* C1: a descriptor ending in .gz, .xz or .zst opened with Wopen, written
\* with bytes B and closed, then opened with Ropen and read to the end,
\* gives back exactly B.
C1_RoundTrip ==
    (/\ wrote.done /\ wrote.via = "Wopen" /\ Suffix(wrote.path) \in Formats
     /\ ret.op = "Ropen" /\ ret.f = wrote.path)
    => /\ ret.res = "reader"
       /\ Avail(h.b) = <<>> => out = wrote.B

\* C2: Buf on a non-empty stream that starts with none of the three
\* magics succeeds and its reader is over the stream's own bytes; such a
\* stream never gets the no-content error.
C2_PlainNonEmpty ==
    (ret.buf /\ ret.raw # <<>> /\ NoMagic(ret.raw))
    => /\ ret.res = "reader"
       /\ h.fmt = "none"
       /\ h.b.data = ret.raw

\* C3: for a Reader over any of the three decoders, Close closes the
\* decompressing transform, and then the raw source when that can be
\* closed, whether or not the transform's Close failed.
C3_TransformThenSource ==
    (h.kind = "reader" /\ h.closes >= 1 /\ h.fmt \in Formats)
    => /\ lay.tr >= 1
       /\ h.closable =>
            /\ lay.raw >= 1
            /\ FirstIdx(log, "gz.Close") < FirstIdx(log, "rdr.Close")

\* C4 as stated: however many times Close is called on a Reader or a
\* Writer, every layer it holds is closed exactly once.
C4_ExactlyOnce ==
    /\ (h.kind = "reader" /\ h.closes >= 1)
       => /\ h.gz => lay.tr = 1
          /\ h.closable => lay.raw = 1
    /\ (h.kind = "writer" /\ h.closes >= 1)
       => /\ h.comp.fmt # "none" => lay.comp = 1
          /\ lay.sink = 1

\* C4 as amended: every Close call closes each layer the handle holds
\* once more, so after n calls each held layer has been closed n times.
C4_OncePerClose ==
    /\ h.kind = "reader"
       => /\ h.gz => lay.tr = h.closes
          /\ h.closable => lay.raw = h.closes
    /\ h.kind = "writer"
       => /\ h.comp.fmt # "none" => lay.comp = h.closes
          /\ lay.sink = h.closes

C4_Witness ==
    /\ h.kind = "reader" /\ h.gz /\ h.closable
    /\ h.closes = 2 /\ lay.tr = 2 /\ lay.raw = 2

\* C5: every Writer.Close flushes the buffer, then closes the compressor
\* if there is one, then closes the file, whatever the compressor; and no
\* write is made to the compressor after its Close, nor to the file after
\* its Close.
C5_CloseOrder ==
    h.kind = "writer" =>
       /\ \A c \in 1..Len(log) :
             log[c] = "wtr.Close" =>
                \E m \in 1..c, a \in 1..c :
                   /\ m < a /\ a < c
                   /\ log[m] = "Writer.Close" /\ log[a] = "buf.Flush"
                   /\ \A k \in (m + 1)..c : log[k] # "Writer.Close"
                   /\ h.comp.fmt # "none" =>
                         \E k \in (a + 1)..(c - 1) : log[k] \in CompCloses
       /\ \A i \in 1..Len(log), j \in 1..Len(log) :
             i < j =>
                /\ ~(log[i] \in CompCloses /\ log[j] = "comp.Write")
                /\ ~(log[i] = "wtr.Close" /\ log[j] = "wtr.Write")

C5_Witness ==
    /\ h.kind = "writer" /\ h.comp.fmt = "zstd" /\ h.closes >= 1
    /\ h.B # <<>> /\ h.writable
    /\ FirstIdx(log, "comp.Write") > 0
    /\ FirstIdx(log, "wtr.Write") > 0
    /\ SinkData(fs, stdout, h.path) = Encode("zstd", h.B)

\* C6: sniffing never moves the read position: the bytes read so far
\* followed by the bytes still to come are the stream from where the
\* Reader started, however many sniffs were made and whatever they said.
C6_SniffKeepsPosition ==
    h.kind = "reader" => out \o Avail(h.b) = Drop(h.b.data, h.start)

C6_Witness ==
    /\ h.kind = "reader" /\ h.sniffs >= 1 /\ h.sniff.is
    /\ out # <<>> /\ Avail(h.b) = <<>>

\* C9: a Reader whose decoded stream starts with EF BB BF yields the
\* bytes after those three; any other decoded stream is yielded whole.
C9_BOMStripped ==
    h.kind = "reader" =>
       out \o Avail(h.b) =
          IF HasPrefix(h.b.data, BOMBytes) THEN Drop(h.b.data, 3)
          ELSE h.b.data

C9_Witness ==
    /\ h.kind = "reader" /\ h.fmt = "xz"
    /\ HasPrefix(h.b.data, BOMBytes)
    /\ out # <<>> /\ out = Drop(h.b.data, 3)

\* C7: for "|command args" Ropen starts the first field of the text after
\* '|' with all the remaining fields as arguments, and starts it before
\* the source is first read.
C7_SpawnAllArgs ==
    (ret.op = "Ropen" /\ proc.started)
    => /\ proc.path = Split(Tail(ret.f), " ")[1]
       /\ proc.args = Tail(Split(Tail(ret.f), " "))
       /\ FirstIdx(log, "cmd.Start") = 1
       /\ FirstIdx(log, "rdr.Read") = 2

\* the errors the package's interface names
Classified ==
    {"ErrNoContent", "ErrDirNotSupported", "stdin not detected", "http",
     "http error downloading", "os: no such file", "user: unknown user",
     "exec", "codec"}

\* C8: Ropen returns, for every descriptor, either a reader and no error
\* or no reader and one of the classified errors.
C8_RopenTotal ==
    ret.op = "Ropen" =>
       \/ ret.res = "reader" /\ ret.err = "nil" /\ h.kind = "reader"
       \/ ret.res = "error" /\ ret.err \in Classified /\ h.kind = "none"

\* C10: when Ropen returns an error after it acquired a raw source (a
\* file, an HTTP response, a subprocess pipe), that source is closed.
C10_NoLeakOnError ==
    (ret.op = "Ropen" /\ ret.res = "error"
     /\ src.kind \in {"file", "http", "pipe"})
    => ~src.open

====
